---- MODULE Spec2Model ----
(***************************************************************************)
(* A model of epub-gen-rs (src/src/lib.rs): EPUB::run, EPUB::archive and   *)
(* the document builders write_chapters, manifest, toc_xhtml and toc_ncx.  *)
(*                                                                         *)
(* Text is a sequence of tokens, every token a TLA+ string.  A literal     *)
(* piece of a format! template is one token (or a few, cut where the code  *)
(* interpolates a value); a user supplied string (title, paragraph, css,   *)
(* ...) is the sequence of its characters, one token per character.        *)
(* Interpolation is concatenation, exactly as format! does it: nothing is  *)
(* escaped.                                                                *)
(***************************************************************************)
EXTENDS Naturals, Sequences, FiniteSets

VARIABLES
    info,               \* EPUB.info
    chapters,           \* EPUB.chapters: each chapter its title, then its paragraphs
    pc,                 \* the statement of run() / archive() that runs next
    chaptersRaw,        \* archive(): `chapters`, the (title, document) pairs of write_chapters()
    unique_identifier,  \* archive(): the Uuid of the build
    zip,                \* the ZipWriter: the entries started so far, in order
    idx,                \* the place of the loop over `chapters` in archive()
    ret,                \* what archive() has come to (archive_result in run())
    sink                \* the calls of fs::write made by EPUB::write

vars == <<info, chapters, pc, chaptersRaw, unique_identifier, zip, idx, ret, sink>>

(***************************************************************************)
(* Bounds of the model.                                                    *)
(***************************************************************************)
MaxChapters == 2
MaxParas == 2

(***************************************************************************)
(* Generic sequence helpers (iterators of the Rust standard library).      *)
(***************************************************************************)
Range(s) == {s[i] : i \in DOMAIN s}

\* Iterator::reduce, with the closure |cur, nxt| cur + &nxt + "\n" used by the
\* four builders: the first element starts the accumulator, every later
\* element is appended FOLLOWED by a newline.  None (an empty iterator) is
\* modelled by the caller, which unwraps.
RECURSIVE ReduceFrom(_, _)
ReduceFrom(cur, rest) ==
    IF rest = <<>> THEN cur
    ELSE ReduceFrom(cur \o Head(rest) \o <<"\n">>, Tail(rest))

Reduce(items) == ReduceFrom(Head(items), Tail(items))

\* format!("{}", n) of a usize: its decimal digits.
Digit(d) == <<"0", "1", "2", "3", "4", "5", "6", "7", "8", "9">>[d + 1]

RECURSIVE Itoa(_)
Itoa(n) == IF n < 10 THEN <<Digit(n)>> ELSE Itoa(n \div 10) \o <<Digit(n % 10)>>

(***************************************************************************)
(* slugify!(title) and slugify!(title, separator = "_") of the slugify     *)
(* crate: lower-case the text, keep [a-z0-9], turn every run of other      *)
(* characters into one separator, and drop a separator at either end.      *)
(***************************************************************************)
UpperCase == <<"A", "B", "C", "D", "E", "F", "G", "H", "I", "J", "K", "L", "M",
               "N", "O", "P", "Q", "R", "S", "T", "U", "V", "W", "X", "Y", "Z">>
LowerCase == <<"a", "b", "c", "d", "e", "f", "g", "h", "i", "j", "k", "l", "m",
               "n", "o", "p", "q", "r", "s", "t", "u", "v", "w", "x", "y", "z">>
Digits == {"0", "1", "2", "3", "4", "5", "6", "7", "8", "9"}

ToLower(c) ==
    IF \E i \in DOMAIN UpperCase : UpperCase[i] = c
    THEN LowerCase[CHOOSE i \in DOMAIN UpperCase : UpperCase[i] = c]
    ELSE c

IsSlugChar(c) == c \in Range(LowerCase) \cup Digits

RECURSIVE SlugScan(_, _, _, _)
SlugScan(text, sep, acc, is_sep) ==
    IF text = <<>> THEN acc
    ELSE LET c == ToLower(Head(text)) IN
         IF IsSlugChar(c) THEN SlugScan(Tail(text), sep, Append(acc, c), FALSE)
         ELSE IF is_sep THEN SlugScan(Tail(text), sep, acc, TRUE)
         ELSE SlugScan(Tail(text), sep, Append(acc, sep), TRUE)

Slugify(text, sep) ==
    LET s == SlugScan(text, sep, <<>>, TRUE) IN
    IF s # <<>> /\ s[Len(s)] = sep THEN SubSeq(s, 1, Len(s) - 1) ELSE s

DefaultSeparator == "-"
UnderscoreSeparator == "_"

(***************************************************************************)
(* Reading a document back: the places of a token and the text between an  *)
(* opening token and the next closing token.                               *)
(***************************************************************************)
Min(S) == CHOOSE x \in S : \A y \in S : x <= y

\* the places of a token, in increasing order
Positions(doc, tok) ==
    LET S == {i \in DOMAIN doc : doc[i] = tok} IN
    [k \in 1..Cardinality(S) |-> CHOOSE i \in S : Cardinality({j \in S : j < i}) = k - 1]

Count(doc, tok) == Cardinality({i \in DOMAIN doc : doc[i] = tok})

\* the first place of a token at or after place i (past the end when none)
Find(doc, i, tok) == Min({j \in i..Len(doc) : doc[j] = tok} \cup {Len(doc) + 1})

\* the text from place i up to the next `close`
Until(doc, i, close) == SubSeq(doc, i, Find(doc, i, close) - 1)

\* The texts that follow each occurrence of `open`, each up to the next `close`.
Elements(doc, open, close) ==
    LET ps == Positions(doc, open) IN
    [k \in DOMAIN ps |-> Until(doc, ps[k] + 1, close)]

(***************************************************************************)
(* Results of the builders: a value, or a Rust panic.                      *)
(***************************************************************************)
Value(v) == [ok |-> TRUE, val |-> v]
Panic == [ok |-> FALSE, val |-> <<>>]

(***************************************************************************)
(* EPUB::write_chapters                                                    *)
(***************************************************************************)
P_OPEN == "<p>"
P_CLOSE == "</p>"
H1_OPEN == "<h1>"
H1_CLOSE == "</h1>"
NEWLINE == "\n"
BODY_INDENT == "\n    "
BODY_CLOSE == "\n  </body>\n</html>"

\* |raw| format!("<p>{}</p>", raw)
Paragraph(raw) == <<P_OPEN>> \o raw \o <<P_CLOSE>>

\* chapter.iter().skip(1).map(..).reduce(..): None when nothing follows the title
Paragraphs(chapter) == [j \in 1..(Len(chapter) - 1) |-> Paragraph(chapter[j + 1])]

\* the format! template of a chapter document
ChapterTemplate(title, lang, content) ==
    <<"<?xml version=1.0 encoding=UTF-8?>\n<!DOCTYPE html>\n<html xml:lang=">> \o lang
    \o <<" lang=">> \o lang
    \o <<">\n  <head>\n    <meta charset=UTF-8 />\n    <title>">> \o title
    \o <<"</title>\n    <link rel=stylesheet type=text/css href=styles.css />\n  </head>\n  <body>\n    ",
         H1_OPEN>> \o title \o <<H1_CLOSE, BODY_INDENT>>
    \o content \o <<BODY_CLOSE>>

\* one iteration of the loop: &chapter[0] panics on an empty chapter, the
\* unwrap of the reduce panics on a chapter that is a title only; the
\* template is filled with title = self.info.title.
RenderChapter(inf, chapter) ==
    IF Len(chapter) = 0 THEN Panic
    ELSE IF Len(chapter) = 1 THEN Panic
    ELSE Value([title |-> chapter[1],
                raw |-> ChapterTemplate(inf.title, inf.lang, Reduce(Paragraphs(chapter)))])

write_chapters(inf, chs) ==
    IF \E i \in DOMAIN chs : ~RenderChapter(inf, chs[i]).ok THEN Panic
    ELSE Value([i \in DOMAIN chs |-> RenderChapter(inf, chs[i]).val])

(***************************************************************************)
(* EPUB::manifest                                                          *)
(***************************************************************************)
ITEM_ID == "<item id="
ITEM_HREF == " href="
ITEM_TYPE == " media-type="
ITEM_END == " />"
XHTML_EXT == ".xhtml"
XHTML_TYPE == <<"application/xhtml+xml">>
NCX_TYPE == <<"application/x-dtbncx+xml">>
NAV_TYPE == <<"application/xhtml+xml", " properties=nav">>
CSS_TYPE == <<"text/css">>

ManifestItem(id, href, attrs) ==
    <<ITEM_ID>> \o id \o <<ITEM_HREF>> \o href \o <<ITEM_TYPE>> \o attrs \o <<ITEM_END>>

\* |s| format!("<item id=.. href=...xhtml ../>", slugify!(&s[0]), slugify!(&s[0], separator = "_"))
ChapterItem(s) ==
    ManifestItem(Slugify(s[1], DefaultSeparator),
                 Slugify(s[1], UnderscoreSeparator) \o <<XHTML_EXT>>, XHTML_TYPE)

FixedItems ==
    ManifestItem(<<"n", "c", "x">>, <<"t", "o", "c", ".ncx">>, NCX_TYPE) \o <<NEWLINE>>
    \o ManifestItem(<<"t", "o", "c">>, <<"t", "o", "c", XHTML_EXT>>, NAV_TYPE) \o <<NEWLINE>>
    \o ManifestItem(<<"c", "s", "s">>, <<"s", "t", "y", "l", "e", "s", ".css">>, CSS_TYPE) \o <<NEWLINE>>

manifest(chs) ==
    IF chs = <<>> \/ \E i \in DOMAIN chs : Len(chs[i]) = 0 THEN Panic
    ELSE Value(FixedItems \o Reduce([i \in DOMAIN chs |-> ChapterItem(chs[i])]))

(***************************************************************************)
(* EPUB::toc_xhtml                                                         *)
(***************************************************************************)
LI_HREF == "<li class=table-of-content>\n      <a href="
LI_TEXT == ">"
LI_END == "</a>\n    </li>"

TocListItem(chapter) ==
    LET title == chapter[1]
        src == Slugify(title, UnderscoreSeparator) \o <<XHTML_EXT>>
    IN <<LI_HREF>> \o src \o <<LI_TEXT>> \o title \o <<LI_END>>

toc_xhtml(chs) ==
    IF chs = <<>> \/ \E i \in DOMAIN chs : Len(chs[i]) = 0 THEN Panic
    ELSE Value(Reduce([i \in DOMAIN chs |-> TocListItem(chs[i])]))

(***************************************************************************)
(* EPUB::toc_ncx                                                           *)
(***************************************************************************)
NAV_ID == "<navPoint id="
NAV_ORDER == " playOrder="
NAV_CLASS == " class=chapter>"
NAV_LABEL == "<navLabel>"
NAV_TEXT == "<text>"
NAV_TEXT_END == "</text>"
NAV_LABEL_END == "</navLabel>"
NAV_SRC == "<content src="
NAV_SRC_END == "/>"
NAV_END == "</navPoint>"

\* a <navPoint> element; `in1` and `in2` are the template's indentation
NavPoint(id, order, label, src, in1, in2) ==
    <<NAV_ID>> \o id \o <<NAV_ORDER>> \o order \o <<NAV_CLASS, in1, NAV_LABEL, in2, NAV_TEXT>>
    \o label \o <<NAV_TEXT_END, in1, NAV_LABEL_END, in1, NAV_SRC>> \o src
    \o <<NAV_SRC_END>>

\* the body of the loop over self.chapters.iter().enumerate(); index is the
\* zero-based position
ChapterNavPoint(index, chapter) ==
    LET next == index + 1
        content_id == <<"content_">> \o Itoa(index) \o <<"_item_">> \o Itoa(index)
        title == Itoa(next) \o <<".", " ">> \o chapter[1]
        src == Slugify(chapter[1], UnderscoreSeparator) \o <<XHTML_EXT>>
    IN NavPoint(content_id, Itoa(next), title, src, "\n  ", "\n    ") \o <<NEWLINE, NAV_END>>

toc_ncx(chs) ==
    IF chs = <<>> \/ \E i \in DOMAIN chs : Len(chs[i]) = 0 THEN Panic
    ELSE Value(Reduce([i \in DOMAIN chs |-> ChapterNavPoint(i - 1, chs[i])]))

(***************************************************************************)
(* The documents EPUB::archive assembles around the builders' output.      *)
(***************************************************************************)
MIMETYPE == <<"mimetype">>
MIMETYPE_CONTENT == <<"application/epub+zip">>
META_INF_DIR == <<"META_INF/">>
CONTAINER_XML == <<"META_INF/", "container.xml">>
OEBPS == "OEBPS/"
OEBPS_DIR == <<OEBPS>>
CONTENT_OPF == <<OEBPS, "c", "o", "n", "t", "e", "n", "t", ".opf">>
TOC_NCX == <<OEBPS, "t", "o", "c", ".ncx">>
TOC_XHTML == <<OEBPS, "t", "o", "c", XHTML_EXT>>
STYLES_CSS == <<OEBPS, "s", "t", "y", "l", "e", "s", ".css">>

ContainerXml ==
    <<"<?xml version=1.0 encoding=UTF-8 standalone=no?>\n<container version=1.0>\n  <rootfiles>\n    <rootfile full-path=OEBPS/content.opf media-type=application/oebps-package+xml/>\n  </rootfiles>\n</container>">>

MANIFEST_OPEN == "\n  </metadata>\n  <manifest>\n    "
MANIFEST_CLOSE == "\n  </manifest>\n</package>"

\* the format! of content.opf; `date` is Local::now()
ContentOpf(inf, uuid, date, items) ==
    <<"<?xml version=1.0 encoding=UTF-8?>\n  <package version=3.0 unique-identifier=BookId xml:lang=">>
    \o inf.lang
    \o <<">\n  <metadata>\n    <dc:identifier id=BookId>", uuid, "</dc:identifier>\n    <dc:title>">>
    \o inf.title \o <<"</dc:title>\n    <meta property=dcterms:title id=meta-title>">> \o inf.title
    \o <<"</meta>\n    <dc:language>">> \o inf.lang
    \o <<"</dc:language>\n    <meta property=dcterms:language id=meta-language>">> \o inf.lang
    \o <<"</meta>\n    <meta property=dcterms:modified>", date, "</meta>\n    <dc:creator id=creator>">>
    \o inf.author \o <<"</dc:creator>\n    <meta refines=#creator property=file-as>">> \o inf.author
    \o <<"</meta>\n    <meta property=dcterms:publisher>">> \o inf.publisher
    \o <<"</meta>\n    <dc:publisher>">> \o inf.publisher
    \o <<"</dc:publisher>\n    <meta property=dcterms:date>", date, "</meta>\n    <dc:date>", date,
         "</dc:date>\n    <dc:rights>Copyright 2023 by ">> \o inf.publisher
    \o <<"</dc:rights>\n    <meta name=generator content=epub-gen-rs />", MANIFEST_OPEN>>
    \o items \o <<MANIFEST_CLOSE>>

\* the navigation point of the table of contents, written in the template
TocPoint(toc_title) ==
    NavPoint(<<"t", "o", "c">>, <<"0">>, toc_title, <<"t", "o", "c", XHTML_EXT>>,
             "\n      ", "\n        ") \o <<"\n    ", NAV_END, "\n    ">>

\* the format! of toc.ncx: the head, then the toc navigation point, then {toc}
TocNcx(inf, uuid, points) ==
    <<"\n    <?xml version=1.0 encoding=UTF-8?>\n<ncx version=2005-1>\n  <head>\n    <meta name=dtb:uid content=",
      uuid, " />\n    <meta name=dtb:depth content=1/>\n  </head>\n  <docTitle>\n    <text>">>
    \o inf.title \o <<"</text>\n  </docTitle>\n  <docAuthor>\n    <text>">> \o inf.author
    \o <<"</text>\n  </docAuthor>\n  <navMap>\n    ">>
    \o TocPoint(inf.toc_title)
    \o points \o <<"\n  </navMap>\n</ncx>">>

\* the format! of toc.xhtml
TocXhtml(inf, items) ==
    <<"<?xml version=1.0 encoding=UTF-8?>\n<!DOCTYPE html>\n<html xml:lang=">> \o inf.lang
    \o <<" lang=">> \o inf.lang \o <<">\n<head>\n    <title>">> \o inf.title
    \o <<"</title>\n</head>\n<body>\n  <h1 class=h1>Table of Content</h1>\n  <nav id=toc epub:type=toc>\n    <ol>\n      ">>
    \o items \o <<"\n    </ol>\n  </nav>\n</body>\n</html>">>

\* a variant of ChapterEntryName that names the entry by the default slug
ChapterEntryName_DefaultSlug(title) == <<OEBPS>> \o Slugify(title, DefaultSeparator) \o <<XHTML_EXT>>

\* format!("OEBPS/{}.xhtml", slugify!(title, separator = "_"))
ChapterEntryName(title) == <<OEBPS>> \o Slugify(title, UnderscoreSeparator) \o <<XHTML_EXT>>

(***************************************************************************)
(* The inputs: EPUB::new(info, chapters).                                  *)
(***************************************************************************)
Test == <<"t", "e", "s", "t">>
TitleToc == <<"T", "o", "c">>
TitleCss == <<"C", "S", "S">>
TitleAB == <<"A", " ", "&", " ", "b", "!">>
Titles == {TitleToc, TitleCss, TitleAB}

\* the j-th paragraph of a chapter
Para(j) == <<"p", "a", "r", "a", " ">> \o Itoa(j)

\* a chapter: no element at all, or a title followed by k paragraphs
Chapters ==
    {<<>>} \cup {<<t>> \o [j \in 1..k |-> Para(j)] : t \in Titles, k \in 0..MaxParas}

RECURSIVE SeqsUpTo(_, _)
SeqsUpTo(S, n) ==
    IF n = 0 THEN {<<>>}
    ELSE LET shorter == SeqsUpTo(S, n - 1) IN
         shorter \cup {Append(s, x) : s \in {t \in shorter : Len(t) = n - 1}, x \in S}

None == [some |-> FALSE, val |-> <<>>]
Some(v) == [some |-> TRUE, val |-> v]

Infos ==
    {[title |-> t, description |-> Test, publisher |-> Test, author |-> Test,
      toc_title |-> Test, lang |-> <<"e", "n">>, css |-> c]
       : t \in {Test}, c \in {None, Some(<<"p", "{", "}">>)}}

UUIDs == {"uuid-a", "uuid-b"}
Clock == {"2023-01-01T00:00:00"}

(***************************************************************************)
(* The archive writer (zip::ZipWriter over a Cursor<Vec<u8>>): the entries *)
(* started so far, in order; write_all extends the entry started last.     *)
(***************************************************************************)
Stored == "Stored"
Default == "Default"

FileEntry(name, method) == [kind |-> "file", name |-> name, method |-> method, data |-> <<>>, written |-> FALSE]
DirEntry(name, method) == [kind |-> "dir", name |-> name, method |-> method, data |-> <<>>, written |-> FALSE]

Written(z, bytes) ==
    [z EXCEPT ![Len(z)] = [@ EXCEPT !.data = @ \o bytes, !.written = TRUE]]

\* what archive() has come to: nothing yet, Ok(bytes), Err(at the writer call
\* that failed), or a panic (in the function that panicked)
NoResult == [tag |-> "none", at |-> "", bytes |-> <<>>]
Ok(bytes) == [tag |-> "Ok", at |-> "", bytes |-> bytes]
Err(at) == [tag |-> "Err", at |-> at, bytes |-> <<>>]
Panicked(at) == [tag |-> "panic", at |-> at, bytes |-> <<>>]

Init ==
    /\ info \in Infos
    /\ chapters \in SeqsUpTo(Chapters, MaxChapters)
    /\ pc = "run"
    /\ chaptersRaw = <<>>
    /\ unique_identifier = "unset"
    /\ zip = <<>>
    /\ idx = 0
    /\ ret = NoResult
    /\ sink = <<>>

inputs == <<info, chapters>>

\* a panic inside archive() unwinds through run(): nothing runs after it
Unwind(at) ==
    /\ pc' = "panicked"
    /\ ret' = Panicked(at)
    /\ UNCHANGED <<zip, sink>>

\* a variant of ReturnErr that returns what has been written so far
ReturnErr_Partial(at) ==
    /\ pc' = "match"
    /\ ret' = Ok(zip)
    /\ UNCHANGED <<zip, sink>>

\* the ? operator on a failed writer call: archive() returns Err to run()
ReturnErr(at) ==
    /\ pc' = "match"
    /\ ret' = Err(at)
    /\ UNCHANGED <<zip, sink>>

\* zip.start_file(name, options)?
StartFile(from, name, method, to) ==
    /\ pc = from
    /\ \E ok \in BOOLEAN :
         IF ok THEN /\ zip' = Append(zip, FileEntry(name, method))
                    /\ pc' = to
                    /\ UNCHANGED <<ret, sink>>
         ELSE ReturnErr(from)

\* zip.add_directory(name, options)?
AddDirectory(from, name, method, to) ==
    /\ pc = from
    /\ \E ok \in BOOLEAN :
         IF ok THEN /\ zip' = Append(zip, DirEntry(name, method))
                    /\ pc' = to
                    /\ UNCHANGED <<ret, sink>>
         ELSE ReturnErr(from)

\* zip.write_all(bytes)?
WriteAll(from, bytes, to) ==
    /\ pc = from
    /\ \E ok \in BOOLEAN :
         IF ok THEN /\ zip' = Written(zip, bytes)
                    /\ pc' = to
                    /\ UNCHANGED <<ret, sink>>
         ELSE ReturnErr(from)

(***************************************************************************)
(* EPUB::run and EPUB::archive, statement by statement.                    *)
(***************************************************************************)
\* run() calls archive(): the writer is opened, then write_chapters()
WriteChapters ==
    /\ pc = "run"
    /\ LET r == write_chapters(info, chapters) IN
       IF r.ok THEN /\ chaptersRaw' = r.val
                    /\ pc' = "start_mimetype"
                    /\ UNCHANGED <<zip, ret, sink>>
       ELSE Unwind("write_chapters") /\ UNCHANGED chaptersRaw
    /\ UNCHANGED <<inputs, unique_identifier, idx>>

\* a variant of StartMimetype that starts the entry with the default options
StartMimetype_Default ==
    /\ StartFile("start_mimetype", MIMETYPE, Default, "write_mimetype")
    /\ UNCHANGED <<inputs, chaptersRaw, unique_identifier, idx>>

StartMimetype ==
    /\ StartFile("start_mimetype", MIMETYPE, Stored, "write_mimetype")
    /\ UNCHANGED <<inputs, chaptersRaw, unique_identifier, idx>>

WriteMimetype ==
    /\ WriteAll("write_mimetype", MIMETYPE_CONTENT, "dir_meta_inf")
    /\ UNCHANGED <<inputs, chaptersRaw, unique_identifier, idx>>

AddMetaInf ==
    /\ AddDirectory("dir_meta_inf", META_INF_DIR, Stored, "start_container")
    /\ UNCHANGED <<inputs, chaptersRaw, unique_identifier, idx>>

StartContainer ==
    /\ StartFile("start_container", CONTAINER_XML, Stored, "write_container")
    /\ UNCHANGED <<inputs, chaptersRaw, unique_identifier, idx>>

WriteContainer ==
    /\ WriteAll("write_container", ContainerXml, "dir_oebps")
    /\ UNCHANGED <<inputs, chaptersRaw, unique_identifier, idx>>

AddOebps ==
    /\ AddDirectory("dir_oebps", OEBPS_DIR, Default, "start_opf")
    /\ UNCHANGED <<inputs, chaptersRaw, unique_identifier, idx>>

StartOpf ==
    /\ StartFile("start_opf", CONTENT_OPF, Default, "write_opf")
    /\ UNCHANGED <<inputs, chaptersRaw, unique_identifier, idx>>

\* Uuid::new_v4(), the format! of the package document (which calls
\* manifest() and Local::now()), then write_all
WriteOpf ==
    /\ pc = "write_opf"
    /\ \E uuid \in UUIDs, date \in Clock :
         /\ unique_identifier' = uuid
         /\ LET m == manifest(chapters) IN
            IF m.ok THEN WriteAll("write_opf", ContentOpf(info, uuid, date, m.val), "start_ncx")
            ELSE Unwind("manifest")
    /\ UNCHANGED <<inputs, chaptersRaw, idx>>

StartNcx ==
    /\ StartFile("start_ncx", TOC_NCX, Default, "write_ncx")
    /\ UNCHANGED <<inputs, chaptersRaw, unique_identifier, idx>>

WriteNcx ==
    /\ pc = "write_ncx"
    /\ LET t == toc_ncx(chapters) IN
       IF t.ok THEN WriteAll("write_ncx", TocNcx(info, unique_identifier, t.val), "start_toc_xhtml")
       ELSE Unwind("toc_ncx")
    /\ UNCHANGED <<inputs, chaptersRaw, unique_identifier, idx>>

StartTocXhtml ==
    /\ StartFile("start_toc_xhtml", TOC_XHTML, Default, "write_toc_xhtml")
    /\ UNCHANGED <<inputs, chaptersRaw, unique_identifier, idx>>

WriteTocXhtml ==
    /\ pc = "write_toc_xhtml"
    /\ LET t == toc_xhtml(chapters) IN
       IF t.ok THEN WriteAll("write_toc_xhtml", TocXhtml(info, t.val), "chapters")
       ELSE Unwind("toc_xhtml")
    /\ idx' = 1
    /\ UNCHANGED <<inputs, chaptersRaw, unique_identifier>>

\* a variant of StartChapter that walks the chapters from the last to the first
StartChapter_Reversed ==
    /\ idx <= Len(chaptersRaw)
    /\ StartFile("chapters", ChapterEntryName(chaptersRaw[Len(chaptersRaw) + 1 - idx].title),
                 Stored, "write_chapter")
    /\ UNCHANGED <<inputs, chaptersRaw, unique_identifier, idx>>

\* for (title, raw) in chapters.iter(): start_file, then write_all
StartChapter ==
    /\ idx <= Len(chaptersRaw)
    /\ StartFile("chapters", ChapterEntryName(chaptersRaw[idx].title), Stored, "write_chapter")
    /\ UNCHANGED <<inputs, chaptersRaw, unique_identifier, idx>>

WriteChapter ==
    /\ WriteAll("write_chapter", chaptersRaw[idx].raw, "chapters")
    /\ idx' = idx + 1
    /\ UNCHANGED <<inputs, chaptersRaw, unique_identifier>>

\* after the loop
StartCss ==
    /\ idx > Len(chaptersRaw)
    /\ StartFile("chapters", STYLES_CSS, Default, "write_css")
    /\ UNCHANGED <<inputs, chaptersRaw, unique_identifier, idx>>

\* match &self.info.css
WriteCss ==
    /\ WriteAll("write_css", IF info.css.some THEN info.css.val ELSE <<>>, "finish")
    /\ UNCHANGED <<inputs, chaptersRaw, unique_identifier, idx>>

\* Ok(zip.finish().unwrap().clone().into_inner())
Finish ==
    /\ pc = "finish"
    /\ \E ok \in BOOLEAN :
         IF ok THEN /\ ret' = Ok(zip)
                    /\ pc' = "match"
                    /\ UNCHANGED <<zip, sink>>
         ELSE Unwind("finish")
    /\ UNCHANGED <<inputs, chaptersRaw, unique_identifier, idx>>

\* run(): Err(err) => panic!("{}", err)
RunPanic ==
    /\ pc = "match"
    /\ ret.tag = "Err"
    /\ pc' = "panicked"
    /\ UNCHANGED <<inputs, chaptersRaw, unique_identifier, zip, idx, ret, sink>>

\* run(): Ok(vec) => self.write(vec); write() drops the result of fs::write
Write ==
    /\ pc = "match"
    /\ ret.tag = "Ok"
    /\ \E stored \in BOOLEAN :
         sink' = Append(sink, [name |-> info.title \o <<".epub">>, data |-> ret.bytes, ok |-> stored])
    /\ pc' = "done"
    /\ UNCHANGED <<inputs, chaptersRaw, unique_identifier, zip, idx, ret>>

Next ==
    \/ WriteChapters
    \/ StartMimetype
    \/ WriteMimetype
    \/ AddMetaInf
    \/ StartContainer
    \/ WriteContainer
    \/ AddOebps
    \/ StartOpf
    \/ WriteOpf
    \/ StartNcx
    \/ WriteNcx
    \/ StartTocXhtml
    \/ WriteTocXhtml
    \/ StartChapter
    \/ WriteChapter
    \/ StartCss
    \/ WriteCss
    \/ Finish
    \/ RunPanic
    \/ Write

Spec == Init /\ [][Next]_vars

(***************************************************************************)
(* Reading the archive and its documents back.                             *)
(***************************************************************************)
Files(z) == SelectSeq(z, LAMBDA e : e.kind = "file")

Names(es) == [i \in DOMAIN es |-> es[i].name]

Last(q) == q[Len(q)]

HasFile(z, name) == \E i \in DOMAIN z : z[i].kind = "file" /\ z[i].name = name

\* the first file entry of that name
File(z, name) ==
    z[CHOOSE i \in DOMAIN z :
        /\ z[i].kind = "file" /\ z[i].name = name
        /\ \A j \in 1..(i - 1) : ~(z[j].kind = "file" /\ z[j].name = name)]

\* the text between the first `open` at or after place i and the next `close`
After(doc, i, open, close) == Until(doc, Find(doc, i, open) + 1, close)

ManifestItems(doc) ==
    LET ps == Positions(doc, ITEM_ID) IN
    [k \in DOMAIN ps |-> [id |-> Until(doc, ps[k] + 1, ITEM_HREF),
                          href |-> After(doc, ps[k], ITEM_HREF, ITEM_TYPE),
                          type |-> After(doc, ps[k], ITEM_TYPE, ITEM_END)]]

NavPoints(doc) ==
    LET ps == Positions(doc, NAV_ID) IN
    [k \in DOMAIN ps |-> [id |-> Until(doc, ps[k] + 1, NAV_ORDER),
                          order |-> After(doc, ps[k], NAV_ORDER, NAV_CLASS),
                          label |-> After(doc, ps[k], NAV_TEXT, NAV_TEXT_END),
                          src |-> After(doc, ps[k], NAV_SRC, NAV_SRC_END)]]

ListHrefs(doc) == Elements(doc, LI_HREF, LI_TEXT)

Distinct(q) == \A i, j \in DOMAIN q : i # j => q[i] # q[j]

\* the archive layout of section 6 of the specification, for a chapter list
Layout(chs) ==
    <<MIMETYPE, CONTAINER_XML, CONTENT_OPF, TOC_NCX, TOC_XHTML>>
    \o [i \in DOMAIN chs |-> <<"OEBPS/">> \o Slugify(chs[i][1], "_") \o <<".xhtml">>]
    \o <<STYLES_CSS>>

\* the build has succeeded: archive() returned Ok(bytes)
Succeeded == ret.tag = "Ok"

MimetypeFirst(z) ==
    z # <<>> =>
       /\ z[1].kind = "file"
       /\ z[1].name = <<"mimetype">>
       /\ z[1].method = "Stored"
       /\ z[1].written => z[1].data = <<"application/epub+zip">>
       /\ Len(z) > 1 => z[1].written

(***************************************************************************)
(* C1: whenever the archive writer holds an entry (and so in every         *)
(* returned archive), the first entry started is the file "mimetype",      *)
(* started with the Stored method, nothing (file or directory) precedes    *)
(* it, and once written its payload is exactly "application/epub+zip".     *)
(***************************************************************************)
C1_MimetypeFirst ==
    /\ MimetypeFirst(zip)
    /\ Succeeded => ret.bytes # <<>> /\ ret.bytes[1].written /\ MimetypeFirst(ret.bytes)
    /\ \A i \in DOMAIN sink : sink[i].data # <<>> /\ MimetypeFirst(sink[i].data)

C1_Witness ==
    /\ Succeeded
    /\ Len(chapters) = 2
    /\ ret.bytes[1].data = MIMETYPE_CONTENT
    /\ ret.bytes[2].kind = "dir"

(***************************************************************************)
(* C2: in every archive returned by a successful archive() the file        *)
(* entries are, in write order, mimetype, META_INF/container.xml,          *)
(* OEBPS/content.opf, OEBPS/toc.ncx, OEBPS/toc.xhtml, one                  *)
(* OEBPS/<underscore slug>.xhtml per chapter in chapter order, and         *)
(* OEBPS/styles.css; styles.css is started once, last, and holds the css   *)
(* text when info.css is present and nothing when it is absent.            *)
(***************************************************************************)
C2_EntryOrder ==
    Succeeded =>
       LET files == Files(ret.bytes) IN
       /\ Names(files) = Layout(chapters)
       /\ Last(files).name = STYLES_CSS
       /\ Cardinality({i \in DOMAIN files : files[i].name = STYLES_CSS}) = 1
       /\ Last(files).written
       /\ info.css.some => Last(files).data = info.css.val
       /\ ~info.css.some => Last(files).data = <<>>

C2_Witness ==
    /\ Succeeded
    /\ Len(chapters) = 2
    /\ chapters[1][1] # chapters[2][1]
    /\ ~info.css.some
    /\ Len(Files(ret.bytes)) = 8

(***************************************************************************)
(* C4: in every archive returned by a successful build, for every chapter  *)
(* position i the name of the i-th content entry (without OEBPS/), the     *)
(* href of the i-th chapter item of the manifest, the href of the i-th     *)
(* list item of toc.xhtml and the content src of the i-th chapter          *)
(* navigation point of toc.ncx are all the underscore slug of the          *)
(* chapter's title followed by ".xhtml".                                   *)
(***************************************************************************)
C4_HrefsAgree ==
    Succeeded =>
       LET z == ret.bytes
           files == Files(z)
           items == ManifestItems(File(z, CONTENT_OPF).data)
           points == NavPoints(File(z, TOC_NCX).data)
           hrefs == ListHrefs(files[5].data)
       IN /\ Len(files) = Len(chapters) + 6
          /\ Len(items) = Len(chapters) + 3
          /\ Len(points) = Len(chapters) + 1
          /\ Len(hrefs) = Len(chapters)
          /\ \A i \in DOMAIN chapters :
               LET href == Slugify(chapters[i][1], "_") \o <<".xhtml">> IN
               /\ Tail(files[5 + i].name) = href
               /\ Head(files[5 + i].name) = "OEBPS/"
               /\ items[3 + i].href = href
               /\ hrefs[i] = href
               /\ points[1 + i].src = href

C4_Witness ==
    /\ Succeeded
    /\ Len(chapters) = 2
    /\ chapters[1][1] = TitleAB
    /\ chapters[2][1] = TitleCss
    /\ Tail(Files(ret.bytes)[6].name) = <<"a", "_", "b", ".xhtml">>
    /\ ManifestItems(File(ret.bytes, CONTENT_OPF).data)[5].href = <<"c", "s", "s", ".xhtml">>

Failed == ret.tag \in {"Err", "panic"}

AllOrNothing ==
    /\ Succeeded =>
         /\ ret.bytes = zip
         /\ Names(Files(zip)) = Layout(chapters)
         /\ \A i \in DOMAIN zip : zip[i].kind = "file" => zip[i].written
    /\ sink # <<>> => Succeeded /\ Len(sink) = 1 /\ sink[1].data = ret.bytes
    /\ Failed => sink = <<>> /\ ret.bytes = <<>>
    /\ (\E i \in DOMAIN chapters : Len(chapters[i]) = 0) /\ pc # "run" =>
         zip = <<>> /\ Failed /\ ret.at = "write_chapters"
    /\ pc = "panicked" => Failed
    /\ pc = "done" => Succeeded /\ Len(sink) = 1

FailureIsFinal ==
    Failed => zip' = zip /\ ret' = ret /\ sink' = sink /\ pc' = "panicked"

(***************************************************************************)
(* C8: a build is all or nothing.  Archive bytes are returned only with    *)
(* every entry of the layout started and written (finish comes last); the  *)
(* sink is invoked at most once and only with the returned bytes; a        *)
(* chapter with no element leaves the writer untouched; and once archive() *)
(* has failed (Err or panic) nothing more is started, returned or handed   *)
(* to the sink.                                                            *)
(***************************************************************************)
C8_AllOrNothing == []AllOrNothing /\ [][FailureIsFinal]_vars

C8_Witness ==
    /\ pc = "panicked"
    /\ ret.tag = "Err"
    /\ ret.at = "write_chapter"
    /\ Len(zip) > 6
    /\ sink = <<>>

(***************************************************************************)
(* Chapter lists on which no builder may panic: each chapter has a title   *)
(* and at least one paragraph.                                             *)
(***************************************************************************)
WithParagraphs(chs) == \A i \in DOMAIN chs : Len(chs[i]) >= 2

\* no builder of a document has panicked (finish is the writer's)
NoBuilderPanic == ret.tag = "panic" => ret.at = "finish"

\* archive() has written the document of that name
Produced(name) == HasFile(zip, name) /\ File(zip, name).written

\* archive() has returned or panicked
Returned == ret.tag # "none"

ExpectedNavPoints(points, chs) ==
    /\ Len(points) = Len(chs) + 1
    /\ points[1].order = <<"0">>
    /\ \A k \in DOMAIN points : points[k].order = Itoa(k - 1)
    /\ \A i \in 0..(Len(chs) - 1) :
         /\ points[i + 2].id = <<"content_">> \o Itoa(i) \o <<"_item_">> \o Itoa(i)
         /\ points[i + 2].label = Itoa(i + 1) \o <<".", " ">> \o chs[i + 1][1]

(***************************************************************************)
(* C3: for every chapter list of length N >= 0 (its chapters having        *)
(* paragraphs), archive() produces a toc.ncx with exactly N+1 navigation   *)
(* points: the toc point with play order 0, then for the chapter at        *)
(* zero-based position i the id content_i_item_i, play order i+1 and       *)
(* label "<i+1>. <title>"; the play orders are 0, 1, ..., N.               *)
(***************************************************************************)
C3_NavPoints ==
    WithParagraphs(chapters) =>
       /\ NoBuilderPanic
       /\ Returned /\ ret.tag # "Err" /\ ret.at # "finish" => Produced(TOC_NCX)
       /\ Produced(TOC_NCX) =>
            ExpectedNavPoints(NavPoints(File(zip, TOC_NCX).data), chapters)

ExpectedParagraphs(doc, chapter) ==
    Elements(doc, "<p>", "</p>") = [j \in 1..(Len(chapter) - 1) |-> chapter[j + 1]]

ExpectedHeading(doc, chapter) == Elements(doc, "<h1>", "</h1>") = <<chapter[1]>>

(***************************************************************************)
(* C5: for every chapter [t, p_1, ..., p_k] with k >= 1 the document       *)
(* rendered by write_chapters, and the one written to the chapter's        *)
(* archive entry, has one <h1> whose text is the chapter's own title t     *)
(* and exactly k <p> elements whose texts are p_1, ..., p_k in order.      *)
(***************************************************************************)
C5_ChapterDocument ==
    /\ \A i \in DOMAIN chaptersRaw :
         Len(chapters[i]) >= 2 =>
            /\ ExpectedHeading(chaptersRaw[i].raw, chapters[i])
            /\ ExpectedParagraphs(chaptersRaw[i].raw, chapters[i])
    /\ Succeeded =>
         \A i \in DOMAIN chapters :
            /\ ExpectedHeading(Files(ret.bytes)[5 + i].data, chapters[i])
            /\ ExpectedParagraphs(Files(ret.bytes)[5 + i].data, chapters[i])

\* how often the text occurs in the document
Occurrences(doc, text) ==
    Cardinality({i \in 1..(Len(doc) - Len(text) + 1) : SubSeq(doc, i, i + Len(text) - 1) = text})

TitlesOnly(chs) == chs # <<>> /\ \A i \in DOMAIN chs : Len(chs[i]) >= 1

(***************************************************************************)
(* C6: a chapter that is a title only is a valid input: rendering it does  *)
(* not fail, its document contains the title exactly once and no <p>      *)
(* element, and a build with such a chapter can complete.                  *)
(***************************************************************************)
C6_TitleOnlyChapter ==
    TitlesOnly(chapters) =>
       /\ NoBuilderPanic
       /\ \A i \in DOMAIN chaptersRaw :
            Len(chapters[i]) = 1 =>
               /\ Occurrences(chaptersRaw[i].raw, chapters[i][1]) = 1
               /\ Count(chaptersRaw[i].raw, "<p>") = 0

ExpectedItems(items, chs) ==
    /\ Len(items) = Len(chs) + 3
    /\ items[1].id = <<"n", "c", "x">> /\ items[1].href = <<"t", "o", "c", ".ncx">>
    /\ items[2].id = <<"t", "o", "c">> /\ items[2].href = <<"t", "o", "c", ".xhtml">>
    /\ Last(items[2].type) = " properties=nav"
    /\ items[3].id = <<"c", "s", "s">>
    /\ items[3].href = <<"s", "t", "y", "l", "e", "s", ".css">>
    /\ \A i \in DOMAIN chs :
         /\ items[3 + i].id = Slugify(chs[i][1], "-")
         /\ items[3 + i].href = Slugify(chs[i][1], "_") \o <<".xhtml">>

(***************************************************************************)
(* C7: for every chapter list of length N (its chapters having             *)
(* paragraphs), manifest() emits exactly N+3 items: ncx (toc.ncx), toc     *)
(* (toc.xhtml, properties nav), css (styles.css), then per chapter, in     *)
(* order, the item whose id is the default slug of the title and whose     *)
(* href is the underscore slug plus ".xhtml".                              *)
(***************************************************************************)
C7_ManifestItems ==
    WithParagraphs(chapters) =>
       /\ ~(ret.tag = "panic" /\ ret.at = "manifest")
       /\ Produced(CONTENT_OPF) =>
            LET doc == File(zip, CONTENT_OPF).data IN
            /\ ExpectedItems(ManifestItems(doc), chapters)
            /\ manifest(chapters).ok
            /\ ExpectedItems(ManifestItems(manifest(chapters).val), chapters)

RECURSIVE Join(_, _)
Join(items, sep) ==
    IF Len(items) = 1 THEN items[1]
    ELSE items[1] \o <<sep>> \o Join(Tail(items), sep)

\* what the template holds between the heading and the end of the body
BodyContent(doc) == After(doc, 1, BODY_INDENT, BODY_CLOSE)

(***************************************************************************)
(* C9: for every chapter with paragraphs p_1..p_k, k >= 1, the body        *)
(* content rendered by write_chapters is <p>p_1</p>, ..., <p>p_k</p>       *)
(* with exactly one newline between consecutive paragraph elements and     *)
(* none after the last.                                                    *)
(***************************************************************************)
C9_ParagraphsJoined ==
    \A i \in DOMAIN chaptersRaw :
       Len(chapters[i]) >= 2 =>
          BodyContent(chaptersRaw[i].raw)
             = Join([j \in 1..(Len(chapters[i]) - 1) |-> <<"<p>">> \o chapters[i][j + 1] \o <<"</p>">>], "\n")

DistinctSlugs(chs) ==
    /\ Distinct([i \in DOMAIN chs |-> Slugify(chs[i][1], "_")])
    /\ Distinct([i \in DOMAIN chs |-> Slugify(chs[i][1], "-")])

(***************************************************************************)
(* C10: in every successful build whose chapter titles have pairwise       *)
(* distinct slugs, the names of the file entries of the archive are        *)
(* pairwise distinct and the ids of the manifest's items are pairwise      *)
(* distinct.                                                               *)
(***************************************************************************)
C10_NamesAndIdsDistinct ==
    Succeeded /\ DistinctSlugs(chapters) =>
       /\ Distinct(Names(Files(ret.bytes)))
       /\ Distinct([k \in DOMAIN ManifestItems(File(ret.bytes, CONTENT_OPF).data)
                      |-> ManifestItems(File(ret.bytes, CONTENT_OPF).data)[k].id])

====
